---- MODULE Spec2Model ----
(***************************************************************************)
(* fuel/datasets/hdf5.py: H5PYDataset, a view on a range of the records of *)
(* an HDF5 file, and the class-level table ref_counts through which the    *)
(* views share one h5py.File per path.                                     *)
(*                                                                         *)
(* A record of a column is represented by its absolute index in the file,  *)
(* so that the value returned by get_data says which records were read.    *)
(* Python's None is the string "None" where a string is expected and the   *)
(* empty tuple where an integer is expected (an integer x is <<x>>).       *)
(***************************************************************************)
EXTENDS Integers, Sequences, FiniteSets, TLC

None == "None"
NoInt == <<>>
Some(x) == <<x>>
IsNone(o) == o = NoInt
Val(o) == o[1]

\* ---- bounds of the model ------------------------------------------------
NViews == 2      \* view objects a run may construct
FileLen == 3     \* records in each column of the well-formed file
MaxIdx == 2      \* largest subset.start / subset.stop a caller passes
MaxReq == 2      \* largest index a get_data request names
MaxOpen == 1     \* open() tokens one view may hold at a time
MaxDebt == 2     \* the stored count is not driven below -MaxDebt
MaxPending == 2  \* references of one key taken and not released

Min(a, b) == IF a < b THEN a ELSE b
Max(a, b) == IF a > b THEN a ELSE b

\* ---- the files on disk (read-only, never modified) -----------------------
GoodPath == "a.h5"
BadPath == "b.h5"
Paths == {GoodPath, BadPath}
Keys == Paths \cup {None}

\* handle.keys() / handle.values(): the columns of the root group, in order.
Columns(p) == <<"features", "targets">>

\* data_source.shape[0] of each column: b.h5 has columns of different length.
ColLen(p, c) ==
    IF p = GoodPath THEN FileLen
    ELSE IF c = "features" THEN FileLen ELSE FileLen - 1

\* handle.attrs: the splits stored as root attributes, [start, stop).
SplitNames(p) == {"train", "test"}
SplitRange(p, s) == IF s = "train" THEN <<0, 1>> ELSE <<1, FileLen - 1>>

RangeSeq(a, b) == [k \in 1..Max(b - a, 0) |-> a + k - 1]

\* slice.indices(len) for step 1 or None: the bounds Python (numpy and h5py
\* alike) gives a slice on a sequence of the given length.
PySliceBound(len, x, dflt) ==
    IF IsNone(x) THEN dflt
    ELSE IF Val(x) < 0 THEN Max(Val(x) + len, 0)
    ELSE Min(Val(x), len)

\* positions (0-based) a slice(start, stop) selects in a sequence of length len
PySlice(len, start, stop) ==
    RangeSeq(PySliceBound(len, start, 0), PySliceBound(len, stop, len))

AllInRange(idx, len) == \A n \in 1..Len(idx) : idx[n] >= 0 /\ idx[n] < len

\* ---- H5PYDataset.ref_counts ---------------------------------------------
\* ref_counts = defaultdict(int): a key is absent, or holds the default 0
\* (kind "int"), or holds the list [handle, count] (kind "list").
Absent == [kind |-> "absent", handle |-> 0, count |-> 0]
IntZero == [kind |-> "int", handle |-> 0, count |-> 0]
ListEntry(h, c) == [kind |-> "list", handle |-> h, count |-> c]

\* bool(entry): 0 is false, a two-element list is true whatever its count
Truthy(e) == e.kind = "list"

\* ref_counts[k] on a defaultdict(int): a missing key is inserted with int()
Subscript(rc, k) == IF rc[k].kind = "absent" THEN [rc EXCEPT ![k] = IntZero] ELSE rc

VARIABLES
    ref_counts,   \* H5PYDataset.ref_counts: key -> entry
    fds,          \* path -> the h5py.File objects of that path now open
    nopened,      \* path -> number of h5py.File(...) calls so far
    nclosed,      \* path -> number of handle.close() calls so far
    pending,      \* key -> _out_of_memory_open calls minus completed
                  \*        _out_of_memory_close calls
    views,        \* the H5PYDataset objects
    held,         \* view -> tokens returned by open() and not yet given to close()
    last,         \* the last call: its arguments, outcome and return value
    hdf5          \* the Hdf5Dataset object

vars == <<ref_counts, fds, nopened, nclosed, pending, views, held, last, hdf5>>

Heap == [rc |-> ref_counts, fds |-> fds, nopened |-> nopened,
         nclosed |-> nclosed, pending |-> pending]

\* H5PYDataset._get_file_id: the key equal to self.path if there is one,
\* else self.path: the path either way.
get_file_id(rc, path) ==
    IF \E f \in Keys : rc[f].kind # "absent" /\ f = path
    THEN CHOOSE f \in Keys : rc[f].kind # "absent" /\ f = path
    ELSE path

\* H5PYDataset._out_of_memory_open, mutated: the stored count decides
\* whether the file is open, so a count of 0 or less opens the file again.
out_of_memory_open_by_count(H, path) ==
    LET file_id == get_file_id(H.rc, path)
        rc1 == Subscript(H.rc, file_id)
        h == H.nopened[file_id] + 1
    IN  IF ~Truthy(rc1[file_id]) \/ rc1[file_id].count <= 0
        THEN [H EXCEPT !.rc = [rc1 EXCEPT ![file_id] = ListEntry(h, 1)],
                       !.fds = [@ EXCEPT ![file_id] = @ \cup {h}],
                       !.nopened = [@ EXCEPT ![file_id] = h],
                       !.pending = [@ EXCEPT ![file_id] = @ + 1]]
        ELSE [H EXCEPT !.rc = rc1,
                       !.pending = [@ EXCEPT ![file_id] = @ + 1]]

\* H5PYDataset._out_of_memory_open: returns file_id = path; the heap after.
\* An existing list entry is left as it is: its count is not incremented.
out_of_memory_open(H, path) ==
    LET file_id == get_file_id(H.rc, path)
        rc1 == Subscript(H.rc, file_id)
        h == H.nopened[file_id] + 1
    IN  IF ~Truthy(rc1[file_id])
        THEN [H EXCEPT !.rc = [rc1 EXCEPT ![file_id] = ListEntry(h, 1)],
                       !.fds = [@ EXCEPT ![file_id] = @ \cup {h}],
                       !.nopened = [@ EXCEPT ![file_id] = h],
                       !.pending = [@ EXCEPT ![file_id] = @ + 1]]
        ELSE [H EXCEPT !.rc = rc1,
                       !.pending = [@ EXCEPT ![file_id] = @ + 1]]

\* H5PYDataset._out_of_memory_close, mutated: the count is tested, and at
\* zero the handle is closed and the entry deleted.
out_of_memory_close_at_zero(H, state) ==
    LET rc1 == Subscript(H.rc, state)
        e == rc1[state]
    IN  IF e.kind = "int"
        THEN [H |-> [H EXCEPT !.rc = rc1], err |-> "TypeError"]
        ELSE IF e.count - 1 = 0
        THEN [H |-> [H EXCEPT !.rc = [rc1 EXCEPT ![state] = Absent],
                              !.fds = [@ EXCEPT ![state] = @ \ {e.handle}],
                              !.nclosed = [@ EXCEPT ![state] = @ + 1],
                              !.pending = [@ EXCEPT ![state] = @ - 1]],
              err |-> "ok"]
        ELSE [H |-> [H EXCEPT !.rc = [rc1 EXCEPT ![state].count = @ - 1],
                              !.pending = [@ EXCEPT ![state] = @ - 1]],
              err |-> "ok"]

\* H5PYDataset._out_of_memory_close: the heap after, and the exception
\* raised if any. Line 183 subscripts the entry (TypeError on the default
\* 0); line 184 tests the entry, which is a non-empty list and so true:
\* lines 185-186 (whose first name, H5PyDataset, is undefined) never run.
out_of_memory_close(H, state) ==
    LET rc1 == Subscript(H.rc, state)
        e == rc1[state]
        rc2 == [rc1 EXCEPT ![state].count = @ - 1]
    IN  IF e.kind = "int"
        THEN [H |-> [H EXCEPT !.rc = rc1], err |-> "TypeError"]
        ELSE IF ~Truthy(rc2[state])
        THEN [H |-> [H EXCEPT !.rc = rc2], err |-> "NameError"]
        ELSE [H |-> [H EXCEPT !.rc = rc2,
                              !.pending = [@ EXCEPT ![state] = @ - 1]],
              err |-> "ok"]

\* ---- H5PYDataset objects -------------------------------------------------
Views == 1..NViews

Slice(start, stop, step) == [start |-> start, stop |-> stop, step |-> step]
NoData == [none |-> TRUE, cols |-> <<>>]

\* a slot in which no object has been constructed yet
NoView == [alive |-> FALSE, path |-> None, which_set |-> None,
           subset |-> Slice(NoInt, NoInt, NoInt), load_in_memory |-> FALSE,
           sources |-> <<>>, num_examples |-> 0, data_sources |-> NoData,
           has_provides_sources |-> FALSE]

Range(s) == {s[n] : n \in 1..Len(s)}

\* Line 158, variant: the whole column is copied, whatever the subset.
ColumnWhole(p, c, subset) == RangeSeq(0, ColLen(p, c))

\* data_source[self.subset] on a column of the file (h5py, line 158): the
\* records of the column the slice selects.
ColumnSlice(p, c, subset) == PySlice(ColLen(p, c), subset.start, subset.stop)

\* H5PYDataset.provides_sources (the property): the first access opens the
\* file, caches the column names, and releases.
provides_sources(H, view) ==
    IF view.has_provides_sources
    THEN [H |-> H, view |-> view, err |-> "ok"]
    ELSE LET H1 == out_of_memory_open(H, view.path)
             c == out_of_memory_close(H1, view.path)
         IN  [H |-> c.H,
              view |-> IF c.err = "ok"
                       THEN [view EXCEPT !.has_provides_sources = TRUE]
                       ELSE view,
              err |-> c.err]

\* Lines 150-155, variant: the subset is taken as an offset into the split.
resolve_relative(p, which_set, subset) ==
    LET base == IF which_set # None /\ which_set # ""
                THEN SplitRange(p, which_set)
                ELSE <<0, ColLen(p, Columns(p)[1])>>
    IN  Slice(IF IsNone(subset.start) THEN Some(base[1])
              ELSE Some(base[1] + Val(subset.start)),
              IF IsNone(subset.stop) THEN Some(base[2])
              ELSE Some(base[1] + Val(subset.stop)),
              subset.step)

\* Lines 150-155 of load(): the split (or the whole file), then each
\* unspecified bound of the subset replaced by the split's.
resolve(p, which_set, subset) ==
    LET base == IF which_set # None /\ which_set # ""
                THEN SplitRange(p, which_set)
                ELSE <<0, ColLen(p, Columns(p)[1])>>
    IN  Slice(IF IsNone(subset.start) THEN Some(base[1]) ELSE subset.start,
              IF IsNone(subset.stop) THEN Some(base[2]) ELSE subset.stop,
              subset.step)

\* Lines 145-150, variant: any subset.step is accepted.
load_error_any_step(view) ==
    LET p == view.path
        cols == Columns(p)
    IN  IF \E n \in 1..Len(cols) : ColLen(p, cols[n]) # ColLen(p, cols[1])
        THEN "ValueError"
        ELSE IF view.which_set # None /\ view.which_set # ""
                /\ view.which_set \notin SplitNames(p)
        THEN "KeyError"
        ELSE "ok"

\* Lines 145-150, variant: the lengths of the columns are not compared.
load_error_lengths_unchecked(view) ==
    LET p == view.path
    IN  IF view.subset.step \notin {Some(1), NoInt}
        THEN "ValueError"
        ELSE IF view.which_set # None /\ view.which_set # ""
                /\ view.which_set \notin SplitNames(p)
        THEN "KeyError"
        ELSE "ok"

\* Lines 145-150 of load(): the exception raised before the range is
\* resolved, "ok" if none: columns of different lengths (line 147), a step
\* other than 1 or None (line 149), a which_set the file has no attribute
\* for (line 150).
load_error(view) ==
    LET p == view.path
        cols == Columns(p)
    IN  IF \E n \in 1..Len(cols) : ColLen(p, cols[n]) # ColLen(p, cols[1])
        THEN "ValueError"
        ELSE IF view.subset.step \notin {Some(1), NoInt}
        THEN "ValueError"
        ELSE IF view.which_set # None /\ view.which_set # ""
                /\ view.which_set \notin SplitNames(p)
        THEN "KeyError"
        ELSE "ok"

\* H5PYDataset.load: the heap and the view after, and the exception raised.
\* An exception leaves before line 163: the reference taken at line 143 is
\* not released.
load(H, view) ==
    LET p == view.path
        H1 == out_of_memory_open(H, p)
        cols == Columns(p)
        new == resolve(p, view.which_set, view.subset)
        loaded == [view EXCEPT
            !.subset = new,
            !.num_examples = Val(new.stop) - Val(new.start),
            !.data_sources =
                IF view.load_in_memory
                THEN [none |-> FALSE,
                      cols |-> SelectSeq(
                          [n \in 1..Len(cols) |->
                              [col |-> cols[n],
                               recs |-> ColumnSlice(p, cols[n], new)]],
                          LAMBDA d : d.col \in Range(view.sources))]
                ELSE NoData]
        c == out_of_memory_close(H1, p)
    IN  IF load_error(view) # "ok"
        THEN [H |-> H1, view |-> view, err |-> load_error(view)]
        ELSE [H |-> c.H, view |-> loaded, err |-> c.err]

\* ---- requests and indexing ----------------------------------------------
\* A get_data request: slice(start, stop) (step None), a list of indices,
\* a bare integer (held in start), or None.
SliceReq(i, j) == [kind |-> "slice", start |-> i, stop |-> j, idx |-> <<>>]
ListReq(idx) == [kind |-> "list", start |-> 0, stop |-> 0, idx |-> idx]
IntReq(i) == [kind |-> "int", start |-> i, stop |-> 0, idx |-> <<>>]
NoneReq == [kind |-> "none", start |-> 0, stop |-> 0, idx |-> <<>>]

Gather(recs, idx) == [n \in 1..Len(idx) |-> recs[idx[n] + 1]]

\* array[request] on a numpy array holding recs (line 197): what it
\* raises, and the records it returns.
NumpyIndex(recs, request) ==
    LET len == Len(recs)
        wrap(k) == IF k < 0 THEN k + len ELSE k
        ok(k) == k >= -len /\ k < len
    IN  CASE request.kind = "slice" ->
               [err |-> "ok",
                recs |-> Gather(recs, PySlice(len, Some(request.start),
                                              Some(request.stop)))]
          [] request.kind = "list" ->
               IF \A n \in 1..Len(request.idx) : ok(request.idx[n])
               THEN [err |-> "ok",
                     recs |-> [n \in 1..Len(request.idx) |->
                                  recs[wrap(request.idx[n]) + 1]]]
               ELSE [err |-> "IndexError", recs |-> <<>>]
          [] request.kind = "int" ->
               IF ok(request.start)
               THEN [err |-> "ok", recs |-> <<recs[wrap(request.start) + 1]>>]
               ELSE [err |-> "IndexError", recs |-> <<>>]
          [] OTHER -> [err |-> "ok", recs |-> recs]

\* data_source[request] on a column of len records of an open file (h5py,
\* line 209); the only requests that reach it are slices and lists. A list
\* must name existing records in increasing order.
H5Index(len, request) ==
    IF request.kind = "slice"
    THEN [err |-> "ok",
          recs |-> PySlice(len, Some(request.start), Some(request.stop))]
    ELSE IF ~AllInRange(request.idx, len)
    THEN [err |-> "ValueError", recs |-> <<>>]
    ELSE IF \E n \in 1..(Len(request.idx) - 1) : request.idx[n] >= request.idx[n + 1]
    THEN [err |-> "TypeError", recs |-> <<>>]
    ELSE [err |-> "ok", recs |-> request.idx]

\* Dataset.filter_sources: the columns of the view's sources, in order.
filter_sources(view, data) == SelectSeq(data, LAMBDA d : d.col \in Range(view.sources))

FirstError(rs) ==
    IF \A n \in 1..Len(rs) : rs[n].err = "ok" THEN "ok"
    ELSE rs[CHOOSE n \in 1..Len(rs) :
                rs[n].err # "ok" /\ \A m \in 1..(n - 1) : rs[m].err = "ok"].err

\* H5PYDataset._in_memory_get_data
in_memory_get_data(view, state, request) ==
    LET src == view.data_sources.cols
        rs == [n \in 1..Len(src) |-> NumpyIndex(src[n].recs, request)]
        data == [n \in 1..Len(src) |-> [col |-> src[n].col, recs |-> rs[n].recs]]
    IN  IF state # None \/ request.kind = "none"
        THEN [err |-> "ValueError", data |-> <<>>]
        ELSE IF FirstError(rs) # "ok"
        THEN [err |-> FirstError(rs), data |-> <<>>]
        ELSE [err |-> "ok", data |-> filter_sources(view, data)]

\* Lines 201-207, variant: the request is used as it is, untranslated.
translate_none(view, request) == request

\* Lines 201-207: the request moved by subset.start.
translate(view, request) ==
    LET s == Val(view.subset.start)
    IN  IF request.kind = "slice"
        THEN SliceReq(request.start + s, request.stop + s)
        ELSE ListReq([n \in 1..Len(request.idx) |-> request.idx[n] + s])

\* H5PYDataset._out_of_memory_get_data: the heap after (the lookup of
\* line 208 inserts the default 0 for a missing key), the exception raised,
\* and the value returned.
out_of_memory_get_data(H, view, state, request) ==
    LET req == translate(view, request)
        rc1 == Subscript(H.rc, state)
        e == rc1[state]
        H1 == [H EXCEPT !.rc = rc1]
        cols == Columns(state)
        rs == [n \in 1..Len(cols) |-> H5Index(ColLen(state, cols[n]), req)]
        data == [n \in 1..Len(cols) |-> [col |-> cols[n], recs |-> rs[n].recs]]
    IN  IF request.kind \notin {"slice", "list"}
        THEN [H |-> H, err |-> "ValueError", data |-> <<>>]
        ELSE IF e.kind = "int"
        THEN [H |-> H1, err |-> "TypeError", data |-> <<>>]
        ELSE IF e.handle \notin H.fds[state]
        THEN [H |-> H1, err |-> "ValueError", data |-> <<>>]
        ELSE IF FirstError(rs) # "ok"
        THEN [H |-> H1, err |-> FirstError(rs), data |-> <<>>]
        ELSE [H |-> H1, err |-> "ok", data |-> filter_sources(view, data)]

\* ---- Hdf5Dataset ----------------------------------------------------------
\* no Hdf5Dataset constructed yet
NoHdf5 == [alive |-> FALSE, start |-> 0, stop |-> 0, num_examples |-> 0,
           sources |-> <<>>]

\* Hdf5Dataset.__init__: start, stop, num_examples and the nodes of the
\* sources (open_file)
hdf5_init(sources, start, stop) ==
    [alive |-> TRUE, start |-> start, stop |-> stop,
     num_examples |-> stop - start, sources |-> sources]

\* Hdf5Dataset.get_data: only a start other than 0 (line 60) has the
\* request translated, or refused when it is neither a slice nor a list;
\* then every node is indexed with the request (line 68).
hdf5_get_data(self, request) ==
    LET checked == self.start # 0
        req == IF ~checked THEN request
               ELSE IF request.kind = "slice"
               THEN SliceReq(request.start + self.start, request.stop + self.start)
               ELSE ListReq([n \in 1..Len(request.idx) |-> request.idx[n] + self.start])
        rs == [n \in 1..Len(self.sources) |-> NumpyIndex(RangeSeq(0, FileLen), req)]
    IN  IF checked /\ request.kind \notin {"slice", "list"}
        THEN [err |-> "ValueError", data |-> <<>>]
        ELSE IF FirstError(rs) # "ok"
        THEN [err |-> FirstError(rs), data |-> <<>>]
        ELSE [err |-> "ok",
              data |-> [n \in 1..Len(self.sources) |->
                           [col |-> self.sources[n], recs |-> rs[n].recs]]]

\* ---- the calls a program makes -------------------------------------------
NoCall == [op |-> "none", view |-> 0, outcome |-> "ok", state |-> None,
           request |-> NoneReq, arg |-> Slice(NoInt, NoInt, NoInt), data |-> <<>>,
           path |-> None, which_set |-> None]

SetHeap(H) ==
    /\ ref_counts' = H.rc
    /\ fds' = H.fds
    /\ nopened' = H.nopened
    /\ nclosed' = H.nclosed
    /\ pending' = H.pending

\* the counters of every key stay within the model's range
WithinDebt(H) ==
    \A k \in Keys : H.rc[k].count >= -MaxDebt /\ H.pending[k] <= MaxPending

Init ==
    /\ ref_counts = [k \in Keys |-> Absent]
    /\ fds = [k \in Keys |-> {}]
    /\ nopened = [k \in Keys |-> 0]
    /\ nclosed = [k \in Keys |-> 0]
    /\ pending = [k \in Keys |-> 0]
    /\ views = [v \in Views |-> NoView]
    /\ held = [v \in Views |-> 0]
    /\ last = NoCall
    /\ hdf5 = NoHdf5

\* H5PYDataset.__init__: the attributes, then load(). subset=None is
\* slice(None, None, None). An exception of load() leaves no object.
Construct(v, path, which_set, subset, load_in_memory, sources) ==
    /\ ~views[v].alive
    /\ LET self == [NoView EXCEPT !.alive = TRUE, !.path = path,
                        !.which_set = which_set, !.subset = subset,
                        !.load_in_memory = load_in_memory, !.sources = sources]
           r == load(Heap, self)
       IN  /\ WithinDebt(r.H)
           /\ SetHeap(r.H)
           /\ views' = IF r.err = "ok" THEN [views EXCEPT ![v] = r.view] ELSE views
           /\ last' = [NoCall EXCEPT !.op = "construct", !.view = v,
                           !.outcome = r.err, !.arg = subset,
                           !.path = path, !.which_set = which_set]
    /\ UNCHANGED <<held, hdf5>>

\* dataset.load() on a constructed view
Load(v) ==
    /\ views[v].alive
    /\ LET r == load(Heap, views[v])
       IN  /\ WithinDebt(r.H)
           /\ SetHeap(r.H)
           /\ views' = [views EXCEPT ![v] = r.view]
           /\ last' = [NoCall EXCEPT !.op = "load", !.view = v,
                           !.outcome = r.err, !.arg = views[v].subset]
    /\ UNCHANGED <<held, hdf5>>

\* dataset.provides_sources
ProvidesSources(v) ==
    /\ views[v].alive
    /\ LET r == provides_sources(Heap, views[v])
       IN  /\ WithinDebt(r.H)
           /\ SetHeap(r.H)
           /\ views' = [views EXCEPT ![v] = r.view]
           /\ last' = [NoCall EXCEPT !.op = "provides_sources", !.view = v,
                           !.outcome = r.err]
    /\ UNCHANGED <<held, hdf5>>

\* H5PYDataset.open: None in memory, else the file_id of _out_of_memory_open
Open(v) ==
    /\ views[v].alive
    /\ IF views[v].load_in_memory
       THEN /\ last' = [NoCall EXCEPT !.op = "open", !.view = v, !.state = None]
            /\ UNCHANGED <<ref_counts, fds, nopened, nclosed, pending, held>>
       ELSE /\ held[v] < MaxOpen
            /\ WithinDebt(out_of_memory_open(Heap, views[v].path))
            /\ SetHeap(out_of_memory_open(Heap, views[v].path))
            /\ held' = [held EXCEPT ![v] = @ + 1]
            /\ last' = [NoCall EXCEPT !.op = "open", !.view = v,
                            !.state = views[v].path]
    /\ UNCHANGED <<views, hdf5>>

\* H5PYDataset.close(state), state being a token open() returned
Close(v) ==
    /\ views[v].alive
    /\ IF views[v].load_in_memory
       THEN /\ last' = [NoCall EXCEPT !.op = "close", !.view = v, !.state = None]
            /\ UNCHANGED <<ref_counts, fds, nopened, nclosed, pending, held>>
       ELSE /\ held[v] > 0
            /\ LET r == out_of_memory_close(Heap, views[v].path)
               IN  /\ WithinDebt(r.H)
                   /\ SetHeap(r.H)
                   /\ last' = [NoCall EXCEPT !.op = "close", !.view = v,
                                   !.state = views[v].path, !.outcome = r.err]
            /\ held' = [held EXCEPT ![v] = @ - 1]
    /\ UNCHANGED <<views, hdf5>>

\* H5PYDataset.get_data(state, request)
GetData(v, state, request) ==
    /\ views[v].alive
    /\ IF views[v].load_in_memory
       THEN LET r == in_memory_get_data(views[v], state, request)
            IN  /\ last' = [NoCall EXCEPT !.op = "get_data", !.view = v,
                                !.state = state, !.request = request,
                                !.outcome = r.err, !.data = r.data]
                /\ UNCHANGED <<ref_counts, fds, nopened, nclosed, pending>>
       ELSE LET r == out_of_memory_get_data(Heap, views[v], state, request)
            IN  /\ last' = [NoCall EXCEPT !.op = "get_data", !.view = v,
                                !.state = state, !.request = request,
                                !.outcome = r.err, !.data = r.data]
                /\ SetHeap(r.H)
    /\ UNCHANGED <<views, held, hdf5>>

\* Hdf5Dataset(sources, start, stop, path)
Hdf5Construct(sources, start, stop) ==
    /\ hdf5' = hdf5_init(sources, start, stop)
    /\ last' = [NoCall EXCEPT !.op = "hdf5_construct"]
    /\ UNCHANGED <<ref_counts, fds, nopened, nclosed, pending, views, held>>

\* Hdf5Dataset.get_data(state, request)
Hdf5GetData(request) ==
    /\ hdf5.alive
    /\ LET r == hdf5_get_data(hdf5, request)
       IN  last' = [NoCall EXCEPT !.op = "hdf5_get_data", !.request = request,
                        !.outcome = r.err, !.data = r.data]
    /\ UNCHANGED <<ref_counts, fds, nopened, nclosed, pending, views, held, hdf5>>

\* ---- what callers pass ---------------------------------------------------
OptIdx == {NoInt} \cup {Some(i) : i \in 0..MaxIdx}
Steps == {NoInt, Some(1), Some(2)}
Subsets == {Slice(a, b, c) : a \in OptIdx, b \in OptIdx, c \in Steps}
WhichSets == {None, "train", "test", "valid"}
AllSources == <<"features", "targets">>
SourceSets == {AllSources, <<"targets">>}
ReqIdx == 0..MaxReq
SliceRequests == {SliceReq(i, j) : i \in ReqIdx, j \in ReqIdx}
ListRequests == {ListReq(<<i>>) : i \in ReqIdx} \cup {ListReq(<<0, 1>>), ListReq(<<1, 0>>)}
Requests == SliceRequests \cup ListRequests \cup {IntReq(0), NoneReq}

\* The life of the views and of the shared handles: several views on both
\* files, whole-file ranges, every key as state.
Next ==
    \/ \E v \in Views, p \in Paths, w \in {None, "valid"}, c \in {NoInt, Some(2)},
          m \in BOOLEAN : Construct(v, p, w, Slice(NoInt, NoInt, c), m, AllSources)
    \/ \E v \in Views : Load(v)
    \/ \E v \in Views : ProvidesSources(v)
    \/ \E v \in Views : Open(v)
    \/ \E v \in Views : Close(v)
    \/ \E v \in Views, st \in Keys : GetData(v, st, SliceReq(0, 1))

Spec == Init /\ [][Next]_vars

\* the state a caller following the protocol passes: what open() returned
Token(v) == IF views[v].load_in_memory THEN None ELSE views[v].path

\* One view of the well-formed file, every split, subset and request; data
\* is read between open() and close().
NextData ==
    \/ \E w \in WhichSets, s \in Subsets, m \in BOOLEAN, src \in SourceSets :
          Construct(1, GoodPath, w, s, m, src)
    \/ Load(1)
    \/ Open(1)
    \/ \E r \in Requests :
          /\ views[1].load_in_memory \/ held[1] > 0
          /\ GetData(1, Token(1), r)

SpecData == Init /\ [][NextData]_vars

\* Two views of the well-formed file, whole or on the split "train".
NextPair ==
    \/ \E v \in {1, 2}, w \in {None, "train"}, m \in BOOLEAN, src \in SourceSets :
          Construct(v, GoodPath, w, Slice(NoInt, NoInt, NoInt), m, src)
    \/ \E v \in {1, 2} : Open(v)
    \/ \E v \in {1, 2}, st \in {None, GoodPath}, r \in SliceRequests : GetData(v, st, r)

SpecPair == Init /\ [][NextPair]_vars

\* The legacy dataset: every start and stop, slices, lists and an integer.
NextLegacy ==
    \/ \E a \in 0..MaxIdx, b \in 0..MaxIdx : Hdf5Construct(AllSources, a, b)
    \/ \E r \in SliceRequests \cup ListRequests \cup {IntReq(0)} : Hdf5GetData(r)

SpecLegacy == Init /\ [][NextLegacy]_vars

\* ---- the reference counts ------------------------------------------------
Streamed(v) == views[v].alive /\ ~views[v].load_in_memory

\* tokens for path p that views hold between their open() and close()
Holders(p) == {v \in Views : Streamed(v) /\ views[v].path = p /\ held[v] > 0}

\* C1: whenever every acquisition of a path has been matched by a release
\* (n >= 1 of each, the file opened once), the registry has no entry for the
\* path and its file handle has been closed exactly once.
C1_BalancedLeavesNoEntry ==
    \A p \in Paths :
        (nopened[p] = 1 /\ pending[p] = 0)
            => /\ ref_counts[p].kind = "absent"
               /\ nclosed[p] = 1
               /\ fds[p] = {}

\* C2: the stored count of every registered path equals the number of
\* acquisitions of it not yet released (and so is never negative).
C2_CountIsOutstanding ==
    \A p \in Paths :
        ref_counts[p].kind = "list"
            => ref_counts[p].count = pending[p] /\ ref_counts[p].count >= 0

\* C3: while some view holds a token of open() it has not closed, the
\* path's entry is registered and its handle is open.
C3_NoPrematureClose ==
    \A p \in Paths :
        Holders(p) # {}
            => /\ ref_counts[p].kind = "list"
               /\ ref_counts[p].handle \in fds[p]

\* C3 witness: two views of one path had both opened it, the first has
\* closed, the second still holds its token.
C3_Witness ==
    /\ Streamed(1) /\ Streamed(2)
    /\ views[1].path = views[2].path
    /\ last.op = "close" /\ last.view = 1 /\ last.outcome = "ok"
    /\ held[1] = 0 /\ held[2] > 0
    /\ ref_counts[views[2].path].handle \in fds[views[2].path]

\* C4: a streamed get_data(state = p, request) called right after the close
\* that released the last reference to p raises an error.
C4_LookupFailsAfterLastClose ==
    [][(/\ last.op = "close" /\ last.outcome = "ok" /\ last.state \in Paths
        /\ Holders(last.state) = {} /\ pending[last.state] = 0
        /\ last'.op = "get_data" /\ last'.state = last.state
        /\ Streamed(last'.view)
        /\ last'.request.kind \in {"slice", "list"})
       => last'.outcome # "ok"]_vars

\* C5: at most one file handle of a path is open at any time.
C5_OneHandlePerPath == \A p \in Paths : Cardinality(fds[p]) <= 1

\* C5 witness: two views of one path, the column names looked up, both
\* holding a token of open(), and one handle open.
C5_Witness ==
    /\ Streamed(1) /\ Streamed(2)
    /\ views[1].path = views[2].path
    /\ views[1].has_provides_sources
    /\ held[1] > 0 /\ held[2] > 0
    /\ Cardinality(fds[views[1].path]) = 1
    /\ nopened[views[1].path] = 1

\* C6: no entry of the registry holds an open handle with a count of zero
\* or less.
C6_NoOpenHandleAtZero ==
    \A p \in Paths :
        ~(/\ ref_counts[p].kind = "list"
          /\ ref_counts[p].handle \in fds[p]
          /\ ref_counts[p].count <= 0)

\* ---- ranges and data -----------------------------------------------------
\* the file records with absolute index in [a, b), of a column of len records
RecordsIn(a, b, len) == RangeSeq(a, Min(b, len))

\* C7: a streamed view has num_examples = stop - start, and its get_data
\* returns, for each of its columns, the file records at start+i .. start+j-1
\* for a request slice(i, j) and at start+k1, .., start+kn for a list.
C7_StreamedTranslation ==
    /\ \A v \in Views : Streamed(v) =>
           views[v].num_examples = Val(views[v].subset.stop) - Val(views[v].subset.start)
    /\ (last.op = "get_data" /\ Streamed(last.view) /\ last.outcome = "ok") =>
           LET view == views[last.view]
               start == Val(view.subset.start)
               r == last.request
           IN  /\ Len(last.data) = Len(view.sources)
               /\ \A n \in 1..Len(last.data) :
                      /\ last.data[n].col = view.sources[n]
                      /\ last.data[n].recs =
                             IF r.kind = "slice"
                             THEN RecordsIn(start + r.start, start + r.stop,
                                            ColLen(last.state, view.sources[n]))
                             ELSE [m \in 1..Len(r.idx) |-> start + r.idx[m]]

\* C7 witness: the split test starts at record 1; slice(0, 1) of a streamed
\* view of it has returned record 1 of both columns.
C7_Witness ==
    /\ last.op = "get_data" /\ Streamed(last.view) /\ last.outcome = "ok"
    /\ views[last.view].which_set = "test"
    /\ views[last.view].subset.start = Some(1)
    /\ views[last.view].sources = AllSources
    /\ last.request = SliceReq(0, 1)
    /\ last.data = <<[col |-> "features", recs |-> <<1>>],
                     [col |-> "targets", recs |-> <<1>>]>>

\* the range of the split which_set of file p: the whole file for None
BaseRange(p, which_set) ==
    IF which_set = None THEN <<0, ColLen(p, "features")>> ELSE SplitRange(p, which_set)

\* C8: load() resolves a subset (x, y) with a <= x <= y <= b inside the
\* base range (a, b) to exactly (x, y), and replaces each unspecified bound
\* by the base range's.
C8_SplitResolution ==
    (last.op = "construct" /\ last.outcome = "ok") =>
        LET view == views[last.view]
            base == BaseRange(view.path, view.which_set)
            arg == last.arg
        IN  /\ (/\ ~IsNone(arg.start) /\ ~IsNone(arg.stop)
                /\ base[1] <= Val(arg.start) /\ Val(arg.start) <= Val(arg.stop)
                /\ Val(arg.stop) <= base[2])
               => (view.subset.start = arg.start /\ view.subset.stop = arg.stop)
            /\ IsNone(arg.start) => view.subset.start = Some(base[1])
            /\ IsNone(arg.stop) => view.subset.stop = Some(base[2])

\* C8 witness: a view of the split test = (1, FileLen - 1) constructed with
\* subset (1, 2) has the range (1, 2).
C8_Witness ==
    /\ last.op = "construct" /\ last.outcome = "ok"
    /\ views[last.view].which_set = "test"
    /\ last.arg.start = Some(1) /\ last.arg.stop = Some(2)
    /\ views[last.view].subset.start = Some(1)
    /\ views[last.view].subset.stop = Some(2)

\* C9: an in-memory view and a streamed view of the same file, split,
\* subset and sources return the same from get_data for every slice(i, j),
\* the first called with state None, the second with its open() token.
C9_ModeEquivalence ==
    \A v \in Views, w \in Views :
        (/\ views[v].alive /\ views[v].load_in_memory
         /\ Streamed(w) /\ held[w] > 0
         /\ views[v].path = views[w].path
         /\ views[v].which_set = views[w].which_set
         /\ views[v].subset = views[w].subset
         /\ views[v].sources = views[w].sources)
        => \A r \in SliceRequests :
               LET a == in_memory_get_data(views[v], None, r)
                   b == out_of_memory_get_data(Heap, views[w], views[w].path, r)
               IN  a.err = b.err /\ a.data = b.data

\* C10: every record get_data returns lies in the view's range [start, stop).
C10_OnlyOwnRange ==
    (last.op = "get_data" /\ last.outcome = "ok") =>
        LET view == views[last.view]
        IN  \A n \in 1..Len(last.data) :
                \A m \in 1..Len(last.data[n].recs) :
                    /\ Val(view.subset.start) <= last.data[n].recs[m]
                    /\ last.data[n].recs[m] < Val(view.subset.stop)

\* ---- load() --------------------------------------------------------------
\* C11: after a successful construction or load() the view's range
\* satisfies 0 <= start <= stop <= length of the file.
C11_RangeWithinFile ==
    (last.op \in {"construct", "load"} /\ last.outcome = "ok") =>
        LET view == views[last.view]
        IN  /\ 0 <= Val(view.subset.start)
            /\ Val(view.subset.start) <= Val(view.subset.stop)
            /\ Val(view.subset.stop) <= ColLen(view.path, "features")
            /\ view.num_examples >= 0

\* C12: a load() of a view already loaded leaves subset.start, subset.stop
\* and num_examples as they were.
C12_LoadIdempotent ==
    [][\A v \in Views :
          (views[v].alive /\ last'.op = "load" /\ last'.view = v)
          => /\ views'[v].subset.start = views[v].subset.start
             /\ views'[v].subset.stop = views[v].subset.stop
             /\ views'[v].num_examples = views[v].num_examples]_vars

\* C12 witness: a view of the split test, constructed with its bounds
\* unspecified, has been loaded a second time and still has the range
\* (1, FileLen - 1).
C12_Witness ==
    /\ last.op = "load" /\ last.outcome = "ok"
    /\ views[last.view].which_set = "test"
    /\ views[last.view].subset.start = Some(1)
    /\ views[last.view].subset.stop = Some(FileLen - 1)
    /\ views[last.view].num_examples = FileLen - 2
    /\ last.arg = views[last.view].subset

\* ---- get_data: requests and states it must refuse ------------------------
\* C13: get_data raises an error and returns no data for a request that is
\* neither a slice nor a list, in memory and streamed.
C13_RejectsOtherRequests ==
    (last.op = "get_data" /\ last.request.kind \notin {"slice", "list"})
        => (last.outcome # "ok" /\ last.data = <<>>)

\* the state does not fit the view's mode: any state but None for a view in
\* memory; None, or a key that has no handle, for a streamed view
Inconsistent(v, state) ==
    IF views[v].load_in_memory THEN state # None
    ELSE state = None \/ ref_counts[state].kind # "list"

\* C14: get_data with a state that does not fit the view's mode raises an
\* error and leaves every entry of ref_counts as it was.
C14_BadStateLeavesRegistry ==
    [][\A v \in Views :
          (/\ views[v].alive
           /\ last'.op = "get_data" /\ last'.view = v
           /\ Inconsistent(v, last'.state))
          => (last'.outcome # "ok" /\ ref_counts' = ref_counts)]_vars

\* ---- load(): what it refuses ---------------------------------------------
\* all columns of file p have the same number of records
ColsAgree(p) ==
    \A n \in 1..Len(Columns(p)) : ColLen(p, Columns(p)[n]) = ColLen(p, Columns(p)[1])

SplitKnown(p, which_set) == which_set = None \/ which_set \in SplitNames(p)

\* C15: a construction with subset.step other than 1 or None raises an
\* error and leaves no view with a range; with step 1 or None, columns of
\* equal length and a split the file has, it succeeds.
C15_StepBoundary ==
    last.op = "construct" =>
        /\ last.arg.step \notin {NoInt, Some(1)}
               => (last.outcome # "ok" /\ ~views[last.view].alive)
        /\ (/\ last.arg.step \in {NoInt, Some(1)}
            /\ ColsAgree(last.path)
            /\ SplitKnown(last.path, last.which_set))
               => (last.outcome = "ok" /\ views[last.view].alive)

\* C15 witness: a construction on the split test with subset.step = 2 has
\* raised ValueError and left no view.
C15_Witness ==
    /\ last.op = "construct" /\ last.outcome = "ValueError"
    /\ last.arg.step = Some(2)
    /\ last.path = GoodPath /\ last.which_set = "test"
    /\ ~views[last.view].alive

\* C16: a construction on a file whose columns differ in length, or with a
\* which_set the file does not have, raises in load() and leaves no view;
\* so no view exists for which the error could come later.
C16_FailFast ==
    /\ (last.op = "construct"
        /\ (~ColsAgree(last.path) \/ ~SplitKnown(last.path, last.which_set)))
           => (last.outcome # "ok" /\ ~views[last.view].alive)
    /\ \A v \in Views :
           views[v].alive =>
               (ColsAgree(views[v].path) /\ SplitKnown(views[v].path, views[v].which_set))

\* C16 witness: a construction on the file with columns of different
\* lengths has raised ValueError and left no view.
C16_Witness ==
    /\ last.op = "construct" /\ last.outcome = "ValueError"
    /\ last.path = BadPath /\ last.which_set = None
    /\ last.arg.step = NoInt
    /\ ~views[last.view].alive

\* ---- load(): references and local data -----------------------------------
\* C17: a load() (also the one of a construction) or a provides_sources
\* lookup that returns normally leaves the path's entry as it found it: no
\* entry if there was none, the same count if there was one.
C17_ReferenceNeutral ==
    [][\A p \in Paths :
          (/\ last'.op \in {"construct", "load", "provides_sources"}
           /\ last'.outcome = "ok"
           /\ views'[last'.view].path = p)
          => ref_counts'[p] = ref_counts[p]]_vars

\* position of column c in the file p
ColumnPos(p, c) == CHOOSE n \in 1..Len(Columns(p)) : Columns(p)[n] = c

\* C18: after load() a view in memory holds one array per column of its
\* sources, in the file's column order, each the column's records in
\* [start, stop); a streamed view holds None.
C18_LocalData ==
    \A v \in Views :
        views[v].alive =>
            LET view == views[v]
                cols == view.data_sources.cols
            IN  IF view.load_in_memory
                THEN /\ ~view.data_sources.none
                     /\ {cols[n].col : n \in 1..Len(cols)} = Range(view.sources)
                     /\ \A n \in 1..Len(cols), m \in 1..Len(cols) :
                            n < m => ColumnPos(view.path, cols[n].col)
                                         < ColumnPos(view.path, cols[m].col)
                     /\ \A n \in 1..Len(cols) :
                            cols[n].recs =
                                RecordsIn(Val(view.subset.start), Val(view.subset.stop),
                                          ColLen(view.path, cols[n].col))
                ELSE view.data_sources = NoData

\* C18 witness: a view in memory of the split test with the one source
\* targets holds record 1 of targets and nothing else.
C18_Witness ==
    /\ views[1].alive /\ views[1].load_in_memory
    /\ views[1].which_set = "test"
    /\ views[1].sources = <<"targets">>
    /\ views[1].subset.start = Some(1) /\ views[1].subset.stop = Some(2)
    /\ views[1].data_sources = [none |-> FALSE,
                                cols |-> <<[col |-> "targets", recs |-> <<1>>]>>]

\* C19: a load() that raises leaves the registry and the open handles as
\* they were before the call.
C19_FailedLoadReleases ==
    [][(last'.op \in {"construct", "load"} /\ last'.outcome # "ok")
       => (ref_counts' = ref_counts /\ fds' = fds)]_vars

\* ---- Hdf5Dataset.get_data --------------------------------------------------
\* C20: for every start, 0 included, Hdf5Dataset.get_data answers a slice
\* or a list with the records at the requested indices plus start, and
\* raises ValueError, returning nothing, for any other request.
C20_LegacySameForEveryStart ==
    last.op = "hdf5_get_data" =>
        LET r == last.request
        IN  IF r.kind \in {"slice", "list"}
            THEN last.outcome = "ok" =>
                     \A n \in 1..Len(last.data) :
                         last.data[n].recs =
                             IF r.kind = "slice"
                             THEN RecordsIn(hdf5.start + r.start, hdf5.start + r.stop,
                                            FileLen)
                             ELSE [m \in 1..Len(r.idx) |-> hdf5.start + r.idx[m]]
            ELSE last.outcome = "ValueError" /\ last.data = <<>>
====
